---- MODULE Spec2Model ----
(***************************************************************************)
(* Model of repositoryIntegrationWorkflow (src/src/workflows.ts): one      *)
(* workflow instance, the activities it awaits, and the reviewChanges      *)
(* signal that the runtime may deliver between any two awaits.             *)
(*                                                                         *)
(* Every `await` of the workflow is one action: the activity is executed   *)
(* (its outcome chosen with \E) together with the synchronous code that    *)
(* follows it up to the next await.  The signal handler is its own action. *)
(* statusLog, calls, consumed, waits, sigCount and delivered are history    *)
(* variables: what the Status Reporter, the leaf adapters and the reviewer *)
(* observed.                                                               *)
(***************************************************************************)
EXTENDS Integers, Sequences, FiniteSets, TLC

VARIABLES pc, input, reviewDecision, forkInfo, repoPath, claudeResult,
          attemptCount, integrationComplete, error,
          statusLog, calls, consumed, waits, sigCount, delivered,
          reviewPr, finalPr,
          lastReview, cancelRequested, leaf, applying, now, clones, disk, git, staging

\* the workflow instance and what its environment observed of it
wfVars == <<pc, input, reviewDecision, forkInfo, repoPath, claudeResult,
            attemptCount, integrationComplete, error,
            statusLog, calls, consumed, waits, sigCount, delivered, reviewPr, finalPr>>

\* the review dispatcher's last call, the cancellation request, the activity
\* task the runtime has scheduled for the pending await, and the host of the
\* activity workers: its clock, its clone executions, its /tmp, the working
\* copy, and the executions of createStagingBranch and of
\* applyClaudeCodeFeedback in it
auxVars == <<lastReview, cancelRequested, leaf, applying, now, clones, disk, git, staging>>

vars == <<wfVars, auxVars>>

(* ---------------------------- bounds ----------------------------------- *)

\* number of reviewChanges signals delivered to one instance
MaxSignals == 3

\* largest length of modifiedFiles / addedFiles the agent reports
MaxFiles == 1

(* ---------------------------- values ----------------------------------- *)

\* `undefined` of reviewDecision, forkInfo, repoPath, claudeResult, error,
\* reviewPr, finalPr
None == [undefined |-> TRUE]

IntegrationIds == {"abc123", "xyz789"}

\* feedback?: string of a ReviewDecision: absent, the empty string, or text
Feedbacks == {"<absent>", "", "add error handling"}

\* ReviewDecision as the signal carries it
ReviewDecision == [approved : BOOLEAN, feedback : Feedbacks]

\* a test for `feedback !== undefined` in place of truthiness
TruthyDefinedOnly(feedback) == feedback # "<absent>"

\* JavaScript truthiness of `feedback` (workflows.ts:168 `!reviewDecision.feedback`)
Truthy(feedback) == feedback \notin {"<absent>", ""}

\* template-literal rendering of a small number (workflows.ts:184)
NumStr(n) == <<"1", "2", "3", "4", "5", "6", "7", "8", "9">>[n]

\* branch names a fork may report as its default branch (activities.ts:79)
DefaultBranches == {"main", "master"}

\* the fork the hosting API creates (activities.ts:75-80)
ForkOf(owner, repo, branch) ==
  [forkOwner |-> "helicone-bot", forkName |-> repo,
   cloneUrl |-> <<"https://github.com/", "helicone-bot", "/", repo, ".git">>,
   defaultBranch |-> branch]

\* a branch name that does not depend on the integration id
BranchNameUnkeyed(id) == <<"helicone-integration-", "staging">>

\* workflows.ts:140
BranchName(id) == <<"helicone-integration-", id>>

(* ------------------------ status events -------------------------------- *)

\* stagingUrl / prUrl left out of a status event
NoUrl == <<>>

Status(s, m) ==
  [status |-> s, message |-> m, url |-> NoUrl, urlKey |-> "<none>"]

\* a status update with stagingUrl (workflows.ts:296)
StatusUrl(s, m, u) ==
  [status |-> s, message |-> m, url |-> u, urlKey |-> "stagingUrl"]

\* a status update with prUrl (workflows.ts:349)
StatusPrUrl(s, m, u) ==
  [status |-> s, message |-> m, url |-> u, urlKey |-> "prUrl"]

TerminalStatuses == {"completed", "rejected", "failed"}

ForkingStatus == Status("forking", <<"Forking repository...">>)

CloningStatus == Status("cloning", <<"Cloning repository...">>)

IntegratingStatus ==
  Status("integrating", <<"Running Claude Code to add Helicone integration...">>)

NoChangesStatus ==
  Status("completed",
         <<"No changes needed",
           " - this repository may not use supported LLM providers directly.">>)

PushingStatus == Status("pushing", <<"Creating staging branch with changes...">>)

CreatingReviewPrStatus ==
  Status("creating_review_pr", <<"Creating pull request in fork for review...">>)

\* the awaiting_review report without the stagingUrl
AwaitingReviewStatusNoUrl(url) ==
  Status("awaiting_review", <<"Review PR created. Awaiting review...">>)

AwaitingReviewStatus(url) ==
  StatusUrl("awaiting_review", <<"Review PR created. Awaiting review...">>, url)

RejectedNoFeedbackMessage == "Changes rejected without feedback"

RejectedNoFeedbackStatus == Status("rejected", <<RejectedNoFeedbackMessage>>)

ApplyingFeedbackStatus(n) ==
  Status("applying_feedback", <<"Applying feedback (attempt ", NumStr(n), ")...">>)

FeedbackFailedStatus(summary) ==
  Status("failed", <<"Failed to apply feedback", ": ", summary>>)

ReAwaitingReviewStatus ==
  Status("awaiting_review", <<"Feedback applied. Awaiting re-review...">>)

MaxAttemptsMessage == "Maximum feedback attempts reached"

MaxAttemptsStatus == Status("rejected", <<MaxAttemptsMessage>>)

\* a timeout report that leaves the instance awaiting review
TimeoutStatusPending ==
  Status("awaiting_review", <<"Review ", "timed out", " after 7 days.">>)

\* workflows.ts:310-314
TimeoutStatus == Status("failed", <<"Review ", "timed out", " after 7 days.">>)

\* the creating_pr report with the status of the review phase copied
CreatingPrStatusCopied ==
  Status("creating_review_pr",
         <<"Review approved! Creating pull request to original repository...">>)

CreatingPrStatus ==
  Status("creating_pr",
         <<"Review approved! Creating pull request to original repository...">>)

\* a completed report that passes the url as stagingUrl
CompletedStatusStagingUrl(url) ==
  StatusUrl("completed", <<"Successfully created pull request!">>, url)

\* workflows.ts:345-350
CompletedStatus(url) ==
  StatusPrUrl("completed", <<"Successfully created pull request!">>, url)

\* workflows.ts:92  error instanceof Error ? error.message : 'Unknown error'
FailedMessage(e) ==
  <<"Integration failed: ", IF e.isError THEN e.message ELSE "Unknown error">>

FailedStatus(e) == Status("failed", FailedMessage(e))

(* --------------------------- errors ------------------------------------ *)

\* new Error(message) thrown by the workflow itself
WorkflowError(m) == [isError |-> TRUE, message |-> m, activity |-> "<none>"]

\* the failure the workflow catches when activity `op` has exhausted its
\* retries; message stands for the `message` of the caught error, named here
\* after the text the activity throws (activities.ts:82, 122, 234, 321, 429, 466)
ActivityError(op) ==
  [isError |-> TRUE, activity |-> op,
   message |->
     CASE op = "forkRepository" -> "Failed to fork repository"
       [] op = "cloneRepository" -> "Failed to clone repository"
       [] op = "runClaudeCode" -> "Claude Code execution failed"
       [] op = "createStagingBranch" -> "Failed to create staging branch"
       [] op = "createPullRequest" -> "Failed to create pull request"
       [] op = "applyClaudeCodeFeedback" -> "Failed to apply feedback"
       [] op = "updateIntegrationStatus" -> "Activity task failed"]

(* ------------------------- leaf calls ---------------------------------- *)

\* how an activity ends for the workflow: it returns, or its failure is raised
Outcome(ok) == IF ok THEN "ok" ELSE "threw"

NoArg == <<>>

\* one leaf call as the adapter sees it; result is "ok", "threw", or
\* "noChanges" for applyClaudeCodeFeedback returning success: false; path,
\* session and body are the repoPath, sessionId and body arguments of the
\* calls that take them
Call(op, owner, repo, head, base, result) ==
  [op |-> op, owner |-> owner, repo |-> repo, head |-> head, base |-> base,
   result |-> result, path |-> NoArg, session |-> NoArg, body |-> NoArg]

\* the call is recorded with the number of status events reported before it
Invoke(c) ==
  calls' = Append(calls,
                  [op |-> c.op, owner |-> c.owner, repo |-> c.repo,
                   head |-> c.head, base |-> c.base, result |-> c.result,
                   path |-> c.path, session |-> c.session, body |-> c.body,
                   after |-> Len(statusLog)])

Report(s) == statusLog' = Append(statusLog, s)

(* ------------------- decisions of the workflow code -------------------- *)

\* file lists the agent may report (activities.ts:325-341)
FilePool == <<"src/client.ts", "src/config.ts", "README.md">>

FileLists == {SubSeq(FilePool, 1, n) : n \in 0..MaxFiles}

\* hasChanges with >= in place of >: an empty result counts as a change
hasChangesOffByOne(result) ==
  Len(result.changes.modifiedFiles) >= 0 \/ Len(result.changes.addedFiles) >= 0

\* workflows.ts:239-240
hasChanges(result) ==
  Len(result.changes.modifiedFiles) > 0 \/ Len(result.changes.addedFiles) > 0

\* the loop test with <= in place of <
LoopContinuesInclusive(complete, attempt) == ~complete /\ attempt <= 3

\* workflows.ts:150  while (!integrationComplete && attemptCount < 3)
LoopContinues(complete, attempt) == ~complete /\ attempt < 3

\* a reset that leaves the slot as it is
resetReviewDecisionKeeps(slot) == slot

\* workflows.ts:154 / 74-76  resetReviewDecision()
resetReviewDecision(slot) == None

\* the branch with the feedback test made before the approved test
DecisionBranchFeedbackFirst(decision) ==
  IF Truthy(decision.feedback) THEN "feedback"
  ELSE IF decision.approved THEN "approve"
  ELSE "reject"

\* the branch with the approved test widened to `approved || !feedback`
DecisionBranchWide(decision) ==
  IF decision.approved \/ ~Truthy(decision.feedback) THEN "approve"
  ELSE "feedback"

\* workflows.ts:165-176  which branch a consumed decision takes
DecisionBranch(decision) ==
  IF decision.approved THEN "approve"
  ELSE IF ~Truthy(decision.feedback) THEN "reject"
  ELSE "feedback"

\* the result check dropped: the workflow goes on to the final pull request
AfterPerformIntegrationNoGuard(result) == "reportCreatingPr"

\* performIntegration's `return null` (no changes, timeout, feedback failed)
Null == [null |-> TRUE]

\* workflows.ts:79-87  what the workflow does with performIntegration's result
AfterPerformIntegration(result) ==
  IF result = Null THEN "returned" ELSE "reportCreatingPr"

\* a catch block that reports the failure but does not rethrow
AfterCatchSwallows(e) == "returned"

\* workflows.ts:88-95  where a caught error leaves the workflow: rethrown
AfterCatch(e) == "thrown"

\* the workflow function has ended: returned normally or raised to the runtime
Ended == pc \in {"returned", "thrown"}

(* --------------------------- history ----------------------------------- *)

IsReviewPr(c) ==
  /\ c.op = "createPullRequest"
  /\ forkInfo # None
  /\ c.owner = forkInfo.forkOwner

IsFinalPr(c) ==
  /\ c.op = "createPullRequest"
  /\ c.owner = input.repoOwner
  /\ c.repo = input.repoName

\* number of attempts whose changes are on the review pull request
Pushed ==
  Cardinality({i \in 1..Len(calls) :
                 /\ calls[i].result = "ok"
                 /\ \/ IsReviewPr(calls[i])
                    \/ calls[i].op = "applyClaudeCodeFeedback"})

(* ----------------------------- Init ------------------------------------ *)

InitWorkflow ==
  /\ pc = "reportForking"
  \* one started instance; the other id of IntegrationIds is never started
  /\ input \in [repoUrl : {"https://github.com/acme/widgets"},
                repoOwner : {"acme"}, repoName : {"widgets"},
                integrationId : {"xyz789"}]
  /\ reviewDecision = None
  /\ forkInfo = None
  /\ repoPath = None
  /\ claudeResult = None
  /\ attemptCount = 0
  /\ integrationComplete = FALSE
  /\ error = None
  /\ statusLog = <<>>
  /\ calls = <<>>
  /\ consumed = <<>>
  /\ waits = 0
  /\ sigCount = 0
  /\ delivered = <<>>
  /\ reviewPr = None
  /\ finalPr = None

\* no review sent yet, no cancellation requested, and the worker host idle
InitIdle ==
  /\ lastReview = None
  /\ cancelRequested = FALSE
  /\ leaf = None
  /\ applying = None
  /\ now = 0
  /\ clones = <<>>
  /\ disk = {}
  /\ git = None
  /\ staging = None

Init == InitWorkflow /\ InitIdle

(* ------------------------- signal handler ------------------------------ *)

\* a handler that keeps a decision that is already pending
HandlerKeepsPending(slot, decision) == IF slot = None THEN decision ELSE slot

\* a handler that appends the new feedback to the pending feedback
HandlerMerges(slot, decision) ==
  IF slot # None /\ Truthy(slot.feedback) /\ Truthy(decision.feedback)
    THEN [decision EXCEPT !.feedback = "<merged>"]
    ELSE decision

\* workflows.ts:61  reviewDecision = decision
Handler(slot, decision) == decision

\* workflows.ts:56-62: the handler stores the decision.  The signal carries
\* bookkeeping the workflow code never reads: id numbers the signals in
\* delivery order, n counts the signals delivered since the slot was last
\* empty, dup says that the signal repeats the decision that was pending;
\* delivered[id] records how many attempts were on the review pull request
\* when signal id was sent.
SignalReviewChanges ==
  /\ ~Ended
  /\ sigCount < MaxSignals
  /\ \E decision \in ReviewDecision :
       reviewDecision' =
         Handler(reviewDecision,
                 [approved |-> decision.approved,
                  feedback |-> decision.feedback,
                  id |-> sigCount + 1,
                  n |-> IF reviewDecision = None THEN 1
                                                 ELSE reviewDecision.n + 1,
                  dup |-> /\ reviewDecision # None
                          /\ reviewDecision.approved = decision.approved
                          /\ reviewDecision.feedback = decision.feedback])
  /\ sigCount' = sigCount + 1
  /\ delivered' = Append(delivered, Pushed)
  /\ UNCHANGED <<auxVars, pc, input, forkInfo, repoPath, claudeResult, attemptCount,
                 integrationComplete, error, statusLog, calls, consumed, waits,
                 reviewPr, finalPr>>

(* --------------------------- try / catch ------------------------------- *)

\* an activity failed for good, or the workflow threw: control is in `catch`
Throw(e) == error' = e /\ pc' = "catch"

\* workflows.ts:88-95
Catch ==
  /\ pc = "catch"
  /\ ~cancelRequested
  /\ Report(FailedStatus(error))
  /\ pc' = AfterCatch(error)
  /\ UNCHANGED <<auxVars, input, reviewDecision, forkInfo, repoPath, claudeResult,
                 attemptCount, integrationComplete, error, calls, consumed,
                 waits, sigCount, delivered, reviewPr, finalPr>>

(* ------------------------- setupRepository ----------------------------- *)

\* a status report that only moves on to the next await
ReportStep(s, to) ==
  /\ Report(s)
  /\ pc' = to
  /\ UNCHANGED <<auxVars, input, reviewDecision, forkInfo, repoPath, claudeResult,
                 attemptCount, integrationComplete, error, calls, consumed,
                 waits, sigCount, delivered, reviewPr, finalPr>>

\* workflows.ts:100-104
ReportForking ==
  /\ pc = "reportForking"
  /\ ReportStep(ForkingStatus, "forkRepository")

\* workflows.ts:106-109, activities.ts:63-84
ForkRepository ==
  /\ pc = "forkRepository"
  /\ \E ok \in BOOLEAN, branch \in DefaultBranches :
       /\ Invoke(Call("forkRepository", input.repoOwner, input.repoName,
                      NoArg, NoArg, Outcome(ok)))
       /\ IF ok
            THEN /\ forkInfo' = ForkOf(input.repoOwner, input.repoName, branch)
                 /\ pc' = "reportCloning"
                 /\ UNCHANGED error
            ELSE /\ Throw(ActivityError("forkRepository"))
                 /\ UNCHANGED forkInfo
  /\ UNCHANGED <<auxVars, input, reviewDecision, repoPath, claudeResult, attemptCount,
                 integrationComplete, statusLog, consumed, waits, sigCount, delivered, reviewPr, finalPr>>

\* workflows.ts:112-116
ReportCloning ==
  /\ pc = "reportCloning"
  /\ ReportStep(CloningStatus, "cloneRepository")

\* the clone taken from the original repository instead of the fork
CloneArgsOriginal(in, fork) == [repoUrl |-> <<in.repoUrl>>, branch |-> "main"]

\* workflows.ts:118-121  the arguments of cloneRepository
CloneArgs(in, fork) == [repoUrl |-> fork.cloneUrl, branch |-> fork.defaultBranch]

\* workflows.ts:118-121, activities.ts:86-124
CloneRepository ==
  /\ pc = "cloneRepository"
  /\ \E ok \in BOOLEAN :
       /\ Invoke(Call("cloneRepository", NoArg, NoArg,
                      CloneArgs(input, forkInfo).repoUrl,
                      CloneArgs(input, forkInfo).branch, Outcome(ok)))
       /\ IF ok
            THEN /\ repoPath' = <<"/tmp/helicone-integration-", "<now>">>
                 /\ pc' = "reportIntegrating"
                 /\ UNCHANGED error
            ELSE /\ Throw(ActivityError("cloneRepository"))
                 /\ UNCHANGED repoPath
  /\ UNCHANGED <<auxVars, input, reviewDecision, forkInfo, claudeResult, attemptCount,
                 integrationComplete, statusLog, consumed, waits, sigCount, delivered, reviewPr, finalPr>>

(* ----------------------- runClaudeIntegration -------------------------- *)

\* workflows.ts:226-230
ReportIntegrating ==
  /\ pc = "reportIntegrating"
  /\ ReportStep(IntegratingStatus, "runClaudeCode")

\* session ids the agent may report in its result message
\* (activities.ts:212-213)
Sessions == {<<"session-", "1">>, <<"session-", "2">>}

\* workflows.ts:232-242, activities.ts:126-236
RunClaudeCode ==
  /\ pc = "runClaudeCode"
  /\ \E ok \in BOOLEAN, modified \in FileLists, added \in FileLists,
        session \in Sessions :
       LET result == [changes |-> [modifiedFiles |-> modified,
                                   addedFiles |-> added],
                      sessionId |-> session]
       IN /\ Invoke([Call("runClaudeCode", NoArg, NoArg, NoArg, NoArg,
                          Outcome(ok)) EXCEPT !.path = repoPath])
          /\ IF ok
               THEN /\ claudeResult' = result
                    /\ pc' = IF hasChanges(result) THEN "reportPushing"
                                                   ELSE "reportNoChanges"
                    /\ UNCHANGED error
               ELSE /\ Throw(ActivityError("runClaudeCode"))
                    /\ UNCHANGED claudeResult
  /\ UNCHANGED <<auxVars, input, reviewDecision, forkInfo, repoPath, attemptCount,
                 integrationComplete, statusLog, consumed, waits, sigCount, delivered, reviewPr, finalPr>>

\* workflows.ts:243-248, 136-138, 79-82
ReportNoChanges ==
  /\ pc = "reportNoChanges"
  /\ ReportStep(NoChangesStatus, AfterPerformIntegration(Null))

(* --------------------- createReviewPullRequest ------------------------- *)

\* workflows.ts:264-268
ReportPushing ==
  /\ pc = "reportPushing"
  /\ ReportStep(PushingStatus, "createStagingBranch")

\* workflows.ts:270-274, activities.ts:361-445
CreateStagingBranch ==
  /\ pc = "createStagingBranch"
  /\ \E ok \in BOOLEAN :
       /\ Invoke([Call("createStagingBranch", NoArg, NoArg,
                       BranchName(input.integrationId), NoArg, Outcome(ok))
                    EXCEPT !.path = repoPath])
       /\ IF ok
            THEN pc' = "reportCreatingReviewPr" /\ UNCHANGED error
            ELSE Throw(ActivityError("createStagingBranch"))
  /\ UNCHANGED <<auxVars, input, reviewDecision, forkInfo, repoPath, claudeResult,
                 attemptCount, integrationComplete, statusLog, consumed, waits,
                 sigCount, delivered, reviewPr, finalPr>>

\* workflows.ts:277-281
ReportCreatingReviewPr ==
  /\ pc = "reportCreatingReviewPr"
  /\ ReportStep(CreatingReviewPrStatus, "createReviewPr")

\* pull request numbers the hosting API may assign
PrNumbers == {1, 2}

\* the html_url of a created pull request (activities.ts:460-464)
PrUrl(owner, repo, number) ==
  <<"https://github.com/", owner, "/", repo, "/pull/", NumStr(number)>>

\* what createPullRequest returns (activities.ts:460-464)
PullRequest(owner, repo, number) ==
  [number |-> number, url |-> PrUrl(owner, repo, number), state |-> "open"]

\* workflows.ts:355-375: the part of the body that tells the reviewer what
\* to run (lines 368-370); the agent's summaries are left out
formatReviewPRBody(in, result) ==
  <<"1. Review the changes in this PR",
    "2. If approved, run: ", "npm run review ", in.integrationId, " approve",
    "3. If changes needed, run: ", "npm run review ", in.integrationId,
    " reject 'feedback here'">>

\* workflows.ts:283-290, activities.ts:447-468
CreateReviewPr ==
  /\ pc = "createReviewPr"
  /\ \E ok \in BOOLEAN, number \in PrNumbers :
       /\ Invoke([Call("createPullRequest", forkInfo.forkOwner,
                       forkInfo.forkName, BranchName(input.integrationId),
                       forkInfo.defaultBranch, Outcome(ok))
                    EXCEPT !.body = formatReviewPRBody(input, claudeResult)])
       /\ IF ok
            THEN /\ reviewPr' = PullRequest(forkInfo.forkOwner,
                                            forkInfo.forkName, number)
                 /\ pc' = "reportAwaitingReview"
                 /\ UNCHANGED error
            ELSE /\ Throw(ActivityError("createPullRequest"))
                 /\ UNCHANGED reviewPr
  /\ UNCHANGED <<auxVars, input, reviewDecision, forkInfo, repoPath, claudeResult,
                 attemptCount, integrationComplete, statusLog, consumed, waits,
                 sigCount, delivered, finalPr>>

\* workflows.ts:292-297, then 147-148: the loop variables are initialised
ReportAwaitingReview ==
  /\ pc = "reportAwaitingReview"
  /\ Report(AwaitingReviewStatus(reviewPr.url))
  /\ attemptCount' = 1
  /\ integrationComplete' = FALSE
  /\ pc' = "loop"
  /\ UNCHANGED <<auxVars, input, reviewDecision, forkInfo, repoPath, claudeResult,
                 error, calls, consumed, waits, sigCount, delivered, reviewPr, finalPr>>

(* --------------------------- review loop ------------------------------- *)

\* workflows.ts:150-156 and 213: the loop test; when it passes, the slot is
\* reset and the wait is registered in the same synchronous step
LoopHead ==
  /\ pc = "loop"
  /\ IF LoopContinues(integrationComplete, attemptCount)
       THEN /\ reviewDecision' = resetReviewDecision(reviewDecision)
            /\ waits' = waits + 1
            /\ pc' = "waitForReview"
       ELSE /\ pc' = IF ~integrationComplete
                       THEN "reportMaxAttempts"
                       ELSE AfterPerformIntegration(
                              [branchName |-> BranchName(input.integrationId),
                               attemptCount |-> attemptCount])
            /\ UNCHANGED <<reviewDecision, waits>>
  /\ UNCHANGED <<auxVars, input, forkInfo, repoPath, claudeResult, attemptCount,
                 integrationComplete, error, statusLog, calls, consumed,
                 sigCount, delivered, reviewPr, finalPr>>

\* an ordinal that counts every decision, not only the feedback ones
NextAttemptEveryDecision(attempt, branch) == attempt + 1

\* workflows.ts:178  attemptCount++ in the feedback branch only
NextAttempt(attempt, branch) ==
  IF branch = "feedback" THEN attempt + 1 ELSE attempt

\* workflows.ts:307 resolves true, 318-320, 158-178: the decision in the slot
\* is read and the branch is chosen
ReceiveDecision ==
  /\ pc = "waitForReview"
  /\ reviewDecision # None
  /\ consumed' = Append(consumed,
                        [id |-> reviewDecision.id,
                         approved |-> reviewDecision.approved,
                         feedback |-> reviewDecision.feedback,
                         attempt |-> attemptCount,
                         wait |-> waits,
                         statusAt |-> Len(statusLog),
                         callsAt |-> Len(calls),
                         sigAt |-> sigCount,
                         n |-> reviewDecision.n,
                         dup |-> reviewDecision.dup])
  /\ LET branch == DecisionBranch(reviewDecision)
     IN /\ integrationComplete' = (branch = "approve")
        /\ attemptCount' = NextAttempt(attemptCount, branch)
        /\ pc' = CASE branch = "approve" -> "loop"
                   [] branch = "reject" -> "reportRejected"
                   [] branch = "feedback" -> "reportApplyingFeedback"
  /\ UNCHANGED <<auxVars, input, reviewDecision, forkInfo, repoPath, claudeResult,
                 error, statusLog, calls, waits, sigCount, delivered, reviewPr, finalPr>>

\* workflows.ts:307 resolves false after 7 days without a decision
ReviewTimeout ==
  /\ pc = "waitForReview"
  /\ reviewDecision = None
  /\ pc' = "reportTimeout"
  /\ UNCHANGED <<auxVars, input, reviewDecision, forkInfo, repoPath, claudeResult,
                 attemptCount, integrationComplete, error, statusLog, calls,
                 consumed, waits, sigCount, delivered, reviewPr, finalPr>>

\* workflows.ts:309-316, 158-161, 79-82
ReportTimeout ==
  /\ pc = "reportTimeout"
  /\ ReportStep(TimeoutStatus, AfterPerformIntegration(Null))

\* workflows.ts:170-175
ReportRejected ==
  /\ pc = "reportRejected"
  /\ Report(RejectedNoFeedbackStatus)
  /\ Throw(WorkflowError(RejectedNoFeedbackMessage))
  /\ UNCHANGED <<auxVars, input, reviewDecision, forkInfo, repoPath, claudeResult,
                 attemptCount, integrationComplete, calls, consumed, waits,
                 sigCount, delivered, reviewPr, finalPr>>

\* workflows.ts:181-185
ReportApplyingFeedback ==
  /\ pc = "reportApplyingFeedback"
  /\ ReportStep(ApplyingFeedbackStatus(attemptCount), "applyClaudeCodeFeedback")

\* the per-attempt variant: every attempt is pushed and gets its own review PR
AfterFeedbackAppliedNewPr == "reportPushing"

\* workflows.ts:204-210  after a successful feedback application the workflow
\* reports awaiting_review and goes back to the loop test
AfterFeedbackApplied == "reportReAwaitingReview"

\* the success flag of the result not looked at
AfterFeedbackResultIgnored(success) == AfterFeedbackApplied

\* workflows.ts:194-204  if (!feedbackResult.success) ... return null
AfterFeedbackResult(success) ==
  IF ~success THEN "reportFeedbackFailed" ELSE AfterFeedbackApplied

\* feedback applied in a session of its own instead of the first run's
FeedbackArgsFreshSession(path, result, branch) ==
  [repoPath |-> path, sessionId |-> NoArg, branchName |-> branch]

\* workflows.ts:141, 187-192  the arguments of applyClaudeCodeFeedback
FeedbackArgs(path, result, branch) ==
  [repoPath |-> path, sessionId |-> result.sessionId, branchName |-> branch]

\* workflows.ts:187-194, activities.ts:239-323
ApplyClaudeCodeFeedback ==
  /\ pc = "applyClaudeCodeFeedback"
  /\ \E outcome \in {"ok", "noChanges", "threw"} :
       /\ LET args == FeedbackArgs(repoPath, claudeResult,
                                   BranchName(input.integrationId))
          IN Invoke([Call("applyClaudeCodeFeedback", NoArg, NoArg,
                          args.branchName, NoArg, outcome)
                       EXCEPT !.path = args.repoPath,
                              !.session = args.sessionId])
       /\ CASE outcome = "ok" ->
                 pc' = AfterFeedbackResult(TRUE) /\ UNCHANGED error
            [] outcome = "noChanges" ->
                 pc' = AfterFeedbackResult(FALSE) /\ UNCHANGED error
            [] outcome = "threw" ->
                 Throw(ActivityError("applyClaudeCodeFeedback"))
  /\ UNCHANGED <<auxVars, input, reviewDecision, forkInfo, repoPath, claudeResult,
                 attemptCount, integrationComplete, statusLog, consumed, waits,
                 sigCount, delivered, reviewPr, finalPr>>

\* activities.ts:295
NoChangesSummary == "No changes were made in response to the feedback"

\* workflows.ts:195-201, 79-82
ReportFeedbackFailed ==
  /\ pc = "reportFeedbackFailed"
  /\ ReportStep(FeedbackFailedStatus(NoChangesSummary),
                AfterPerformIntegration(Null))

\* workflows.ts:205-209
ReportReAwaitingReview ==
  /\ pc = "reportReAwaitingReview"
  /\ ReportStep(ReAwaitingReviewStatus, "loop")

\* workflows.ts:213-220
ReportMaxAttempts ==
  /\ pc = "reportMaxAttempts"
  /\ Report(MaxAttemptsStatus)
  /\ Throw(WorkflowError(MaxAttemptsMessage))
  /\ UNCHANGED <<auxVars, input, reviewDecision, forkInfo, repoPath, claudeResult,
                 attemptCount, integrationComplete, calls, consumed, waits,
                 sigCount, delivered, reviewPr, finalPr>>

(* ----------------------- createFinalPullRequest ------------------------ *)

\* workflows.ts:330-334
ReportCreatingPr ==
  /\ pc = "reportCreatingPr"
  /\ ReportStep(CreatingPrStatus, "createFinalPr")

\* the body with the iterations paragraph for every attempt count
formatFinalPRBodyAlways(attempt, sessionId) ==
  <<"## Add Helicone Observability for LLM Monitoring",
    "### Review Process",
    "This integration was refined through ", NumStr(attempt),
    " iterations based on review feedback.",
    "*This PR was generated with Helicone Temporal Integration*">>

\* workflows.ts:377-425: the heading, the paragraph of lines 412-418, the
\* footer; sessionId is a parameter the body does not use
formatFinalPRBody(attempt, sessionId) ==
  <<"## Add Helicone Observability for LLM Monitoring">>
  \o (IF attempt > 1
        THEN <<"### Review Process",
               "This integration was refined through ", NumStr(attempt),
               " iterations based on review feedback.">>
        ELSE <<>>)
  \o <<"*This PR was generated with Helicone Temporal Integration*">>

\* workflows.ts:340  base: 'main'
FinalPrBase(fork) == "main"

\* workflows.ts:336-343, activities.ts:447-468
CreateFinalPr ==
  /\ pc = "createFinalPr"
  /\ \E ok \in BOOLEAN, number \in PrNumbers :
       /\ Invoke([Call("createPullRequest", input.repoOwner, input.repoName,
                       <<forkInfo.forkOwner, ":">>
                         \o BranchName(input.integrationId),
                       FinalPrBase(forkInfo), Outcome(ok))
                    EXCEPT !.body = formatFinalPRBody(attemptCount,
                                                      claudeResult.sessionId)])
       /\ IF ok
            THEN /\ finalPr' = PullRequest(input.repoOwner, input.repoName,
                                           number)
                 /\ pc' = "reportCompleted"
                 /\ UNCHANGED error
            ELSE /\ Throw(ActivityError("createPullRequest"))
                 /\ UNCHANGED finalPr
  /\ UNCHANGED <<auxVars, input, reviewDecision, forkInfo, repoPath, claudeResult,
                 attemptCount, integrationComplete, statusLog, consumed, waits,
                 sigCount, delivered, reviewPr>>

\* workflows.ts:345-350
ReportCompleted ==
  /\ pc = "reportCompleted"
  /\ ReportStep(CompletedStatus(finalPr.url), "returned")

(* ------------------------------ Next ----------------------------------- *)

\* a step of the workflow function
WorkflowStep ==
  \/ ReportForking
  \/ ForkRepository
  \/ ReportCloning
  \/ CloneRepository
  \/ ReportIntegrating
  \/ RunClaudeCode
  \/ ReportNoChanges
  \/ ReportPushing
  \/ CreateStagingBranch
  \/ ReportCreatingReviewPr
  \/ CreateReviewPr
  \/ ReportAwaitingReview
  \/ LoopHead
  \/ ReceiveDecision
  \/ ReviewTimeout
  \/ ReportTimeout
  \/ ReportRejected
  \/ ReportApplyingFeedback
  \/ ApplyClaudeCodeFeedback
  \/ ReportFeedbackFailed
  \/ ReportReAwaitingReview
  \/ ReportMaxAttempts
  \/ ReportCreatingPr
  \/ CreateFinalPr
  \/ ReportCompleted
  \/ Catch

Next ==
  \/ SignalReviewChanges
  \/ WorkflowStep

Spec == Init /\ [][Next]_vars

TypeOK ==
  /\ attemptCount \in 0..3
  /\ sigCount \in 0..MaxSignals
  /\ integrationComplete \in BOOLEAN
  /\ reviewDecision = None \/ reviewDecision.approved \in BOOLEAN

(* ====================== properties of the workflow ===================== *)

StatusIdx == 1..Len(statusLog)

CallIdx == 1..Len(calls)

ConsumedIdx == 1..Len(consumed)

Reported(s) == \E i \in StatusIdx : statusLog[i] = s

AgentOps == {"runClaudeCode", "applyClaudeCodeFeedback"}

\* invocations of the code-change agent so far
AgentCalls == Cardinality({i \in CallIdx : calls[i].op \in AgentOps})

LastCall == calls[Len(calls)]

\* C1: the attempt ordinal never exceeds 3, the agent is invoked at most 3
\* times (runClaudeCode once, applyClaudeCodeFeedback twice), and once the
\* feedback that brought the ordinal to 3 has been applied the instance
\* reports rejected with 'Maximum feedback attempts reached' and throws it.
C1_AttemptBound ==
  /\ attemptCount <= 3
  /\ AgentCalls <= 3
  /\ Reported(MaxAttemptsStatus) => attemptCount = 3 /\ AgentCalls = 3
  /\ ( /\ attemptCount = 3
       /\ Len(calls) > 0
       /\ LastCall.op = "applyClaudeCodeFeedback"
       /\ LastCall.result = "ok"
       /\ pc \in {"catch", "thrown", "returned"} )
     => /\ Reported(MaxAttemptsStatus)
        /\ error = WorkflowError(MaxAttemptsMessage)

C1_Witness ==
  /\ pc = "thrown"
  /\ attemptCount = 3
  /\ AgentCalls = 3
  /\ Reported(MaxAttemptsStatus)

\* C2: a consumed decision with approved=false and empty or absent feedback
\* is answered by the status rejected as the next status event, and no agent
\* call and no final pull request follows it.
C2_RejectWithoutFeedback ==
  \A i \in ConsumedIdx :
    (~consumed[i].approved /\ consumed[i].feedback \in {"<absent>", ""})
    => /\ Len(statusLog) > consumed[i].statusAt
            => statusLog[consumed[i].statusAt + 1] = RejectedNoFeedbackStatus
       /\ pc \in {"catch", "thrown", "returned"}
            => Len(statusLog) > consumed[i].statusAt
       /\ \A j \in CallIdx :
            j > consumed[i].callsAt
            => calls[j].op \notin AgentOps /\ ~IsFinalPr(calls[j])
       /\ pc \notin {"reportApplyingFeedback", "applyClaudeCodeFeedback",
                     "reportCreatingPr", "createFinalPr"}

C2_Witness ==
  /\ pc = "thrown"
  /\ \E i \in ConsumedIdx : ~consumed[i].approved /\ consumed[i].feedback = ""
  /\ Reported(RejectedNoFeedbackStatus)

\* C3: when the first agent run reports no modified and no added file, the
\* instance reports completed and returns; createStagingBranch and
\* createPullRequest are never called and no review wait is entered.
C3_NoChangesCompletes ==
  ( /\ claudeResult # None
    /\ Len(claudeResult.changes.modifiedFiles) = 0
    /\ Len(claudeResult.changes.addedFiles) = 0 )
  => /\ \A j \in CallIdx :
          calls[j].op \notin {"createStagingBranch", "createPullRequest"}
     /\ waits = 0
     /\ \/ pc = "reportNoChanges"
        \/ /\ pc = "returned"
           /\ statusLog[Len(statusLog)] = NoChangesStatus

C3_Witness ==
  /\ pc = "returned"
  /\ claudeResult # None
  /\ Len(claudeResult.changes.modifiedFiles) = 0
  /\ Len(claudeResult.changes.addedFiles) = 0
  /\ Reported(NoChangesStatus)

FinalPrCalls == {j \in CallIdx : IsFinalPr(calls[j])}

TargetsOriginal(c) == c.owner = input.repoOwner /\ c.repo = input.repoName

\* C4: the final pull request is requested only after an approved decision
\* has been consumed in a review wait, at most once, as the last leaf call;
\* the only other call that names the original repository is the fork, the
\* first call.
C4_FinalPrAfterApproval ==
  /\ Cardinality(FinalPrCalls) <= 1
  /\ \A j \in FinalPrCalls :
       /\ j = Len(calls)
       /\ \E i \in ConsumedIdx :
            /\ consumed[i].approved
            /\ consumed[i].wait >= 1
            /\ consumed[i].callsAt < j
            /\ i = Len(consumed)
  /\ \A j \in CallIdx :
       TargetsOriginal(calls[j])
       => \/ calls[j].op = "forkRepository" /\ j = 1
          \/ j \in FinalPrCalls
  /\ pc \in {"reportCreatingPr", "createFinalPr", "reportCompleted"}
       => Len(consumed) > 0 /\ consumed[Len(consumed)].approved

C4_Witness ==
  /\ pc = "returned"
  /\ \E j \in FinalPrCalls : calls[j].result = "ok"
  /\ Len(consumed) = 2
  /\ consumed[2].approved

ConsumedIds == {consumed[i].id : i \in ConsumedIdx}

\* C5: every decision the workflow acts on was delivered when the review
\* pull request already existed; a signal delivered earlier is never consumed.
C5_NoDecisionBeforeReviewPr ==
  /\ \A i \in ConsumedIdx : delivered[consumed[i].id] >= 1
  /\ \A id \in 1..sigCount : delivered[id] = 0 => id \notin ConsumedIds
  /\ Pushed = 0 => Len(consumed) = 0

C5_Witness ==
  /\ \E id \in 1..sigCount : delivered[id] = 0
  /\ Len(consumed) > 0

\* C6: every wait starts with an empty slot, no delivered decision is
\* consumed twice, and a decision consumed as the answer for attempt N was
\* delivered while attempt N was the one under review.
C6_NoStaleDecision ==
  /\ \A i, j \in ConsumedIdx : consumed[i].id = consumed[j].id => i = j
  /\ \A i \in ConsumedIdx :
       /\ delivered[consumed[i].id] = consumed[i].attempt
       /\ consumed[i].wait = consumed[i].attempt
  /\ (pc = "waitForReview" /\ reviewDecision # None)
       => delivered[reviewDecision.id] = attemptCount

\* a second decision was delivered for attempt 1 after the first one had been
\* consumed, and the answer for attempt 2 is a later one
C6_Witness ==
  /\ Len(consumed) >= 2
  /\ consumed[1].attempt = 1
  /\ consumed[2].attempt = 2
  /\ consumed[1].id + 1 < consumed[2].id
  /\ delivered[consumed[1].id + 1] = 1

IsTerminal(s) == s.status \in TerminalStatuses

TerminalReported == \E i \in StatusIdx : IsTerminal(statusLog[i])

\* C7: once a terminal status (completed, rejected, failed) has been
\* reported, the instance reports no further status, issues no further leaf
\* call and consumes no further decision.
C7_TerminalIsFinal ==
  [][TerminalReported
       => statusLog' = statusLog /\ calls' = calls /\ consumed' = consumed]_vars

\* C8: every successful feedback application is followed by a review wait
\* before any terminal status: when a terminal status has been reported, a
\* wait has been entered for each attempt that was pushed to the review PR.
C8_ReviewAfterEveryFeedback ==
  (TerminalReported /\ Pushed >= 1) => waits >= Pushed

\* a review wait ended by the 7-day timeout: it was entered, was not ended by a
\* consumed decision, and is over
TimedOut == waits > Len(consumed) /\ pc # "waitForReview"

Contains(message, part) == \E k \in 1..Len(message) : message[k] = part

\* C9: after a review wait times out the instance reports failed with a
\* message containing 'timed out' as its last status and returns; no agent
\* call and no createPullRequest follows the timeout.
C9_TimeoutFails ==
  TimedOut
  => /\ pc \in {"reportTimeout", "returned"}
     /\ pc = "returned"
          => /\ statusLog[Len(statusLog)].status = "failed"
             /\ Contains(statusLog[Len(statusLog)].message, "timed out")
     /\ Len(calls) = 5 + Len(consumed)
     /\ LastCall.result = "ok"
     /\ IsReviewPr(LastCall) \/ LastCall.op = "applyClaudeCodeFeedback"
     /\ FinalPrCalls = {}

C9_Witness ==
  /\ TimedOut
  /\ pc = "returned"
  /\ Len(consumed) = 1
  /\ Reported(TimeoutStatus)

FailedReports == {i \in StatusIdx : statusLog[i].status = "failed"}

\* C10: when a leaf call fails for good it is the last leaf call, control
\* goes to the catch block, exactly one status failed is reported, as the
\* last status and with the caught error's message in it, and the same
\* error is raised again.
C10_LeafFailureIsFatal ==
  \A j \in CallIdx :
    calls[j].result = "threw"
    => /\ j = Len(calls)
       /\ error = ActivityError(calls[j].op)
       /\ pc \in {"catch", "thrown"}
       /\ pc = "catch" => FailedReports = {}
       /\ pc = "thrown"
            => /\ FailedReports = {Len(statusLog)}
               /\ Contains(statusLog[Len(statusLog)].message, error.message)

C10_Witness ==
  /\ pc = "thrown"
  /\ Len(calls) = 7
  /\ LastCall.op = "applyClaudeCodeFeedback"
  /\ LastCall.result = "threw"
  /\ Cardinality(FailedReports) = 1

CallsOf(op) == {j \in CallIdx : calls[j].op = op}

\* the workflow is past setupRepository
SetupDone == repoPath # None

\* C11: the workflow requests the fork and the clone at most once each; once
\* setup is done exactly one of each has been requested, also after feedback
\* attempts, the fork before the clone, and the clone was requested with the
\* clone URL and default branch the fork call returned.
C11_OneForkOneClone ==
  /\ Cardinality(CallsOf("forkRepository")) <= 1
  /\ Cardinality(CallsOf("cloneRepository")) <= 1
  /\ CallsOf("forkRepository") \subseteq {1}
  /\ CallsOf("cloneRepository") \subseteq {2}
  /\ forkInfo # None <=> (CallsOf("forkRepository") = {1} /\ calls[1].result = "ok")
  /\ \A j \in CallsOf("cloneRepository") :
       /\ forkInfo # None
       /\ calls[j].head = forkInfo.cloneUrl
       /\ calls[j].base = forkInfo.defaultBranch
  /\ SetupDone
       => /\ CallsOf("forkRepository") = {1}
          /\ CallsOf("cloneRepository") = {2}
          /\ calls[2].result = "ok"

\* two feedback attempts were made after the one fork and the one clone
C11_Witness ==
  /\ Cardinality(CallsOf("applyClaudeCodeFeedback")) = 2
  /\ CallsOf("forkRepository") = {1}
  /\ CallsOf("cloneRepository") = {2}
  /\ forkInfo.defaultBranch = "master"

\* the staging branch of this instance, written out
StagingBranch == <<"helicone-integration-", input.integrationId>>

\* C12: createStagingBranch, the head of the review pull request and every
\* applyClaudeCodeFeedback call get the branch helicone-integration-<id>, and
\* the head of the final pull request is <forkOwner>:helicone-integration-<id>.
C12_StableBranchName ==
  \A j \in CallIdx :
    /\ calls[j].op \in {"createStagingBranch", "applyClaudeCodeFeedback"}
         => calls[j].head = StagingBranch
    /\ IsReviewPr(calls[j]) => calls[j].head = StagingBranch
    /\ IsFinalPr(calls[j])
         => calls[j].head = <<forkInfo.forkOwner, ":">> \o StagingBranch

C12_Witness ==
  /\ pc = "returned"
  /\ CallsOf("createStagingBranch") # {}
  /\ CallsOf("applyClaudeCodeFeedback") # {}
  /\ FinalPrCalls # {}
  /\ input.integrationId = "xyz789"

ReviewPrCalls == {j \in CallIdx : IsReviewPr(calls[j])}

PhaseOf(c) ==
  CASE c.op = "forkRepository" -> "forking"
    [] c.op = "cloneRepository" -> "cloning"
    [] c.op = "runClaudeCode" -> "integrating"
    [] c.op = "createStagingBranch" -> "pushing"
    [] c.op = "applyClaudeCodeFeedback" -> "applying_feedback"
    [] c.op = "createPullRequest" /\ TargetsOriginal(c) -> "creating_pr"
    [] c.op = "createPullRequest" /\ ~TargetsOriginal(c) -> "creating_review_pr"

\* C14: the status reported last before a leaf call is the status of the
\* call's phase, and it is the only report of that phase since the previous
\* leaf call.
C14_StatusBeforeCall ==
  \A j \in CallIdx :
    LET prev == IF j = 1 THEN 0 ELSE calls[j - 1].after
        this == calls[j].after
    IN /\ this > prev
       /\ statusLog[this].status = PhaseOf(calls[j])
       /\ Cardinality({k \in (prev + 1)..this :
                         statusLog[k].status = PhaseOf(calls[j])}) = 1

C14_Witness ==
  /\ pc = "returned"
  /\ Len(calls) = 7
  /\ FinalPrCalls = {7}
  /\ CallsOf("applyClaudeCodeFeedback") = {6}

\* the transitions of the documented state machine
PhaseOrder ==
  { <<"forking", "cloning">>, <<"cloning", "integrating">>,
    <<"integrating", "pushing">>, <<"integrating", "completed">>,
    <<"pushing", "creating_review_pr">>,
    <<"creating_review_pr", "awaiting_review">>,
    <<"awaiting_review", "applying_feedback">>,
    <<"awaiting_review", "creating_pr">>,
    <<"applying_feedback", "awaiting_review">>,
    <<"creating_pr", "completed">> }

\* C15: the first status is forking, and every status follows its
\* predecessor by a transition of the state machine, or is failed or
\* rejected after a non-terminal status; completed directly after integrating
\* happens only when the first agent run made no changes.
C15_StatusOrder ==
  /\ Len(statusLog) >= 1 => statusLog[1].status = "forking"
  /\ \A k \in 1..(Len(statusLog) - 1) :
       LET a == statusLog[k].status
           b == statusLog[k + 1].status
       IN /\ \/ <<a, b>> \in PhaseOrder
             \/ b \in {"failed", "rejected"} /\ a \notin TerminalStatuses
          /\ (a = "integrating" /\ b = "completed")
               => /\ Len(claudeResult.changes.modifiedFiles) = 0
                  /\ Len(claudeResult.changes.addedFiles) = 0

\* C16: the awaiting_review status that follows creating_review_pr carries
\* as stagingUrl the url of the pull request that createPullRequest returned.
C16_StagingUrlRoundTrip ==
  /\ pc = "reportAwaitingReview" => reviewPr # None
  /\ \A k \in StatusIdx :
       (k > 1 /\ statusLog[k].status = "awaiting_review"
              /\ statusLog[k - 1].status = "creating_review_pr")
       => /\ reviewPr # None
          /\ statusLog[k].url = reviewPr.url
          /\ reviewPr.url = <<"https://github.com/", forkInfo.forkOwner, "/",
                              forkInfo.forkName, "/pull/",
                              IF reviewPr.number = 1 THEN "1" ELSE "2">>

C16_Witness ==
  /\ reviewPr # None
  /\ reviewPr.number = 2
  /\ \E k \in StatusIdx :
       statusLog[k].status = "awaiting_review" /\ statusLog[k].url = reviewPr.url

\* C17: a consumed decision with approved=true is the last one consumed,
\* whatever its feedback and the attempt ordinal; the next status is
\* creating_pr and no agent call follows.
C17_ApprovalExitsLoop ==
  \A i \in ConsumedIdx :
    consumed[i].approved
    => /\ i = Len(consumed)
       /\ integrationComplete
       /\ attemptCount = consumed[i].attempt
       /\ pc \in {"loop", "reportCreatingPr", "createFinalPr",
                  "reportCompleted", "returned", "catch", "thrown"}
       /\ Len(statusLog) > consumed[i].statusAt
            => statusLog[consumed[i].statusAt + 1].status = "creating_pr"
       /\ \A j \in CallIdx :
            j > consumed[i].callsAt => IsFinalPr(calls[j])

C17_Witness ==
  /\ Len(consumed) = 2
  /\ consumed[2].approved
  /\ consumed[2].feedback = "add error handling"
  /\ consumed[2].attempt = 2
  /\ statusLog[Len(statusLog)].status = "creating_pr"

\* the status that answers a consumed decision with this payload
AnswerTo(approved, feedback) ==
  IF approved THEN "creating_pr"
  ELSE IF feedback \in {"<absent>", ""} THEN "rejected"
  ELSE "applying_feedback"

\* C18: delivering again the decision that is pending leaves the decision in
\* the slot and the whole state of the workflow as they were, and the status
\* that answers a consumed decision depends on its approved and feedback
\* fields only, so a run with the duplicate goes on as the run without it.
C18_DuplicateIsIdempotent ==
  /\ [][(sigCount' = sigCount + 1 /\ reviewDecision'.dup)
          => /\ reviewDecision # None
             /\ reviewDecision'.approved = reviewDecision.approved
             /\ reviewDecision'.feedback = reviewDecision.feedback
             /\ UNCHANGED <<pc, input, forkInfo, repoPath, claudeResult,
                            attemptCount, integrationComplete, error,
                            statusLog, calls, consumed, waits, reviewPr,
                            finalPr>>]_vars
  /\ [](\A i \in ConsumedIdx :
          Len(statusLog) > consumed[i].statusAt
          => statusLog[consumed[i].statusAt + 1].status
               = AnswerTo(consumed[i].approved, consumed[i].feedback))

\* a decision delivered twice while pending was consumed and answered
C18_Witness ==
  \E i \in ConsumedIdx :
    /\ consumed[i].dup
    /\ consumed[i].n = 2
    /\ ~consumed[i].approved
    /\ consumed[i].feedback = "add error handling"
    /\ Len(statusLog) > consumed[i].statusAt

\* C19: the decision the workflow consumes is the one delivered last before
\* the consumption; decisions delivered earlier in the same wait are dropped.
C19_LastDecisionWins ==
  /\ \A i \in ConsumedIdx : consumed[i].id = consumed[i].sigAt
  /\ (pc = "waitForReview" /\ reviewDecision # None)
       => reviewDecision.id = sigCount

\* three decisions were delivered in one wait, the last one differing from
\* the one before it, and the last one was consumed
C19_Witness ==
  \E i \in ConsumedIdx :
    /\ consumed[i].n = 3
    /\ ~consumed[i].dup
    /\ consumed[i].id = 3

(* ------------------- a Status Reporter that can fail ------------------- *)

\* the positions of the workflow at which updateIntegrationStatus is awaited
ReportPcs ==
  {"reportForking", "reportCloning", "reportIntegrating", "reportNoChanges",
   "reportPushing", "reportCreatingReviewPr", "reportAwaitingReview",
   "reportTimeout", "reportRejected", "reportApplyingFeedback",
   "reportFeedbackFailed", "reportReAwaitingReview", "reportMaxAttempts",
   "reportCreatingPr", "reportCompleted", "catch"}

\* workflows.ts:26-28, 5-12: updateIntegrationStatus is an activity like the
\* others; when it has failed 3 times its failure is raised at the await.
\* Inside the try the catch block takes it; raised by the report of the
\* catch block itself it leaves the workflow function.
StatusReportFails ==
  /\ pc \in ReportPcs
  /\ error' = ActivityError("updateIntegrationStatus")
  /\ pc' = IF pc = "catch" THEN "thrown" ELSE "catch"
  /\ UNCHANGED <<auxVars, input, reviewDecision, forkInfo, repoPath, claudeResult,
                 attemptCount, integrationComplete, statusLog, calls, consumed,
                 waits, sigCount, delivered, reviewPr, finalPr>>

NextReporterFails == Next \/ StatusReportFails

SpecReporterFails == Init /\ [][NextReporterFails]_vars

\* C20: a failure of a status report never becomes the error of the
\* workflow: the instance is never in its catch block and never ends as
\* failed because updateIntegrationStatus failed.
C20_ReporterFailureNotFatal ==
  \/ error = None
  \/ error.activity # "updateIntegrationStatus"

(* --------- cloneRepository on a worker host (activities.ts:86-124) ------ *)

\* last millisecond the host clock reaches
MaxClock == 2

\* two executions of cloneRepository: of two instances, or of one instance
\* and a retry
CloneExecs == {1, 2}

\* worker processes polling the task queue on the host (worker.ts:13-19)
Workers == {"worker-1", "worker-2"}

\* activities.ts:90  `/tmp/helicone-integration-${Date.now()}`
TempDir(ms) == <<"/tmp/helicone-integration-", NumStr(ms)>>

\* execSync blocks the event loop of its process: while a `git clone` of a
\* worker process is running no other activity of that process takes a step
Blocked(e) ==
  \E o \in CloneExecs \ {e} :
    clones[o].worker = clones[e].worker /\ clones[o].pc = "cloning"

InitClones ==
  /\ InitWorkflow
  /\ lastReview = None
  /\ cancelRequested = FALSE
  /\ leaf = None
  /\ applying = None
  /\ now = 1
  /\ clones \in [CloneExecs -> [pc : {"idle"}, worker : Workers,
                                tempDir : {NoArg}, attempt : {1}]]
  /\ disk = [dirs |-> {}, full |-> {}]
  /\ git = None
  /\ staging = None

\* a millisecond passes
Tick ==
  /\ now < MaxClock
  /\ now' = now + 1
  /\ UNCHANGED <<wfVars, lastReview, cancelRequested, leaf, applying, clones, disk, git, staging>>

\* activities.ts:87-90: the execution starts and names its directory
CloneBegin ==
  \E e \in CloneExecs :
    /\ clones[e].pc = "idle"
    /\ ~Blocked(e)
    /\ clones' = [clones EXCEPT ![e].pc = "mkdir", ![e].tempDir = TempDir(now)]
    /\ UNCHANGED <<wfVars, lastReview, cancelRequested, leaf, applying, now, disk, git, staging>>

\* activities.ts:93  await fs.mkdir(tempDir, { recursive: true }): an
\* existing directory is accepted
CloneMkdir ==
  \E e \in CloneExecs :
    /\ clones[e].pc = "mkdir"
    /\ ~Blocked(e)
    /\ disk' = [disk EXCEPT !.dirs = @ \cup {clones[e].tempDir}]
    /\ clones' = [clones EXCEPT ![e].pc = "clone"]
    /\ UNCHANGED <<wfVars, lastReview, cancelRequested, leaf, applying, now, git, staging>>

\* activities.ts:96: git clone refuses a directory that is not empty and
\* otherwise starts to fill it
GitCloneStart ==
  \E e \in CloneExecs :
    /\ clones[e].pc = "clone"
    /\ ~Blocked(e)
    /\ clones' = [clones EXCEPT ![e].pc = IF clones[e].tempDir \in disk.full
                                           THEN "failed" ELSE "cloning"]
    /\ UNCHANGED <<wfVars, lastReview, cancelRequested, leaf, applying, now, disk, git, staging>>

\* activities.ts:96-123: the clone has filled the directory; it returns
\* { repoPath: tempDir }, or it fails (the network, or another process
\* writing the same directory) and GitOperationError is thrown
GitCloneFinish ==
  \E e \in CloneExecs, ok \in BOOLEAN :
    /\ clones[e].pc = "cloning"
    /\ disk' = [disk EXCEPT !.full = @ \cup {clones[e].tempDir}]
    /\ clones' = [clones EXCEPT ![e].pc = IF ok THEN "done" ELSE "failed"]
    /\ UNCHANGED <<wfVars, lastReview, cancelRequested, leaf, applying, now, git, staging>>

\* workflows.ts:7-11  maximumAttempts: 3 of defaultActivities
MaximumAttempts == 3

\* workflows.ts:5-12: a failed execution is started again while attempts last
CloneRetry ==
  \E e \in CloneExecs :
    /\ clones[e].pc = "failed"
    /\ clones[e].attempt < MaximumAttempts
    /\ clones' = [clones EXCEPT ![e].pc = "idle", ![e].attempt = @ + 1]
    /\ UNCHANGED <<wfVars, lastReview, cancelRequested, leaf, applying, now, disk, git, staging>>

NextClones ==
  \/ Tick
  \/ CloneBegin
  \/ CloneMkdir
  \/ GitCloneStart
  \/ GitCloneFinish
  \/ CloneRetry

SpecClones == InitClones /\ [][NextClones]_vars

\* C21: the paths cloneRepository has returned to two executions are
\* distinct: no two executions hold the same workspace path.
C21_DistinctWorkspaces ==
  \A e, o \in CloneExecs :
    (e # o /\ clones[e].pc = "done" /\ clones[o].pc = "done")
    => clones[e].tempDir # clones[o].tempDir

(* ------------- the review dispatcher (src/review.ts:9-49) --------------- *)

\* number of reviews the dispatcher delivers to one instance
MaxReviews == 2

\* start client, line 52  workflowId: `integration-${integrationId}`
WorkflowId(integrationId) == <<"integration-", integrationId>>

\* what the reviewer may type as <workflow-id>: an integration id as the
\* review pull request prints it, or a workflow id as the usage text shows it
ReviewTargets ==
  {<<i>> : i \in IntegrationIds} \cup {WorkflowId(i) : i \in IntegrationIds}

\* a comparison that is sensitive to case
ToLowerCaseKeepsCase(decision) == decision

\* review.ts:21  decision.toLowerCase()
ToLowerCase(decision) == IF decision = "Approve" THEN "approve" ELSE decision

\* review.ts:19-21, 34-37: the decision the command line stands for
ParseReview(decision, feedbackText) ==
  [approved |-> ToLowerCase(decision) = "approve",
   feedback |-> IF feedbackText = "" THEN "<absent>" ELSE feedbackText]

\* the service finds a running workflow under this id: the one instance,
\* registered by the start client, while its function has not ended
Running(workflowId) ==
  workflowId = WorkflowId(input.integrationId) /\ ~Ended

\* a dispatcher that reports success whatever handle.signal did
ReviewExitSwallowed(found) == 0

\* review.ts:31-48: exit code 0 after 'Review sent successfully!', and
\* process.exit(1) after 'Error sending review:' when handle.signal threw
ReviewExit(found) == IF found THEN 0 ELSE 1

\* review.ts:9-49: one run of `npm run review <workflow-id> <decision>
\* [feedback]`.  handle.signal delivers to the running workflow of that id
\* (the handler of workflows.ts:56-62 runs) or throws WorkflowNotFoundError.
\* lastReview keeps the <workflow-id> and the exit code of the latest run
SendReview ==
  \E target \in ReviewTargets :
    LET found == Running(target)
    IN /\ lastReview' = [workflowId |-> target, exit |-> ReviewExit(found)]
       /\ IF found
            THEN /\ sigCount < MaxReviews
                 /\ \E decision \in {"Approve", "reject"},
                       feedbackText \in {"", "add error handling"} :
                      LET parsed == ParseReview(decision, feedbackText)
                      IN reviewDecision' =
                           Handler(reviewDecision,
                                   [approved |-> parsed.approved,
                                    feedback |-> parsed.feedback,
                                    id |-> sigCount + 1,
                                    n |-> IF reviewDecision = None
                                            THEN 1 ELSE reviewDecision.n + 1,
                                    dup |-> /\ reviewDecision # None
                                            /\ reviewDecision.approved
                                                 = parsed.approved
                                            /\ reviewDecision.feedback
                                                 = parsed.feedback])
                 /\ sigCount' = sigCount + 1
                 /\ delivered' = Append(delivered, Pushed)
            ELSE UNCHANGED <<reviewDecision, sigCount, delivered>>
       /\ UNCHANGED <<pc, input, forkInfo, repoPath, claudeResult, attemptCount,
                      integrationComplete, error, statusLog, calls, consumed,
                      waits, reviewPr, finalPr,
                      cancelRequested, leaf, applying, now, clones, disk, git, staging>>

\* the instance with the review dispatcher as the source of its signals
NextReview ==
  \/ SendReview
  \/ WorkflowStep

SpecReview == Init /\ [][NextReview]_vars

\* the ids a pull request body tells the reviewer to pass to `npm run review`
PrintedReviewIds(body) ==
  {<<body[k + 1]>> : k \in {k \in 1..(Len(body) - 1) : body[k] = "npm run review "}}

\* C22: the id printed in the review pull request's approve/reject commands
\* is the id under which the start client registered the instance, and a
\* review sent with a printed id while the instance runs is delivered to it.
C22_PrintedIdAddressesInstance ==
  [][\A j \in ReviewPrCalls :
       /\ PrintedReviewIds(calls[j].body)
            = {<<"integration-", input.integrationId>>}
       /\ ( /\ lastReview' # lastReview
            /\ lastReview'.workflowId \in PrintedReviewIds(calls[j].body)
            /\ pc \notin {"returned", "thrown"} )
          => /\ lastReview'.exit = 0
             /\ sigCount' = sigCount + 1]_vars

\* C24: a review sent for an id that names no running instance (never
\* started, or already ended) ends with exit code 1 after the error has been
\* printed, and leaves the state of the instance as it was.
C24_UnknownInstanceFails ==
  [][( /\ lastReview' # lastReview
       /\ ~ ( /\ lastReview'.workflowId = <<"integration-", input.integrationId>>
              /\ pc \notin {"returned", "thrown"} ) )
     => /\ lastReview'.exit = 1
        /\ UNCHANGED wfVars]_vars

\* a review was sent to the instance after it had ended
C24_Witness ==
  /\ lastReview # None
  /\ lastReview.workflowId = <<"integration-", input.integrationId>>
  /\ lastReview.exit = 1
  /\ pc = "returned"
  /\ sigCount = 1

\* the iteration counts a pull request body states
IterationsStated(body) ==
  {body[k + 1] : k \in {k \in 1..(Len(body) - 1) :
                          body[k] = "This integration was refined through "}}

\* C23: the body of the final pull request states the attempt count exactly
\* when the count is greater than 1, and the count it states is the number of
\* agent invocations made in the run: 2 after one feedback round.
C23_FinalBodyAttemptCount ==
  \A j \in FinalPrCalls :
    /\ attemptCount = AgentCalls
    /\ AgentCalls > 1 <=> IterationsStated(calls[j].body) # {}
    /\ AgentCalls = 2 => IterationsStated(calls[j].body) = {"2"}
    /\ AgentCalls = 3 => IterationsStated(calls[j].body) = {"3"}

\* a final pull request after one feedback round
C23_Witness ==
  /\ pc = "returned"
  /\ AgentCalls = 2
  /\ \E j \in FinalPrCalls :
       calls[j].result = "ok" /\ IterationsStated(calls[j].body) = {"2"}

(* ------------------ an external cancellation request ------------------- *)

\* what a cancellable await raises when the workflow's root scope is cancelled
CancelledFailure ==
  [isError |-> TRUE, message |-> "Workflow cancelled", activity |-> "<cancelled>"]

\* workflows.ts:5-28, 64-88: the activities are proxied without a
\* cancellationType and awaited in the root scope, so a cancellation request
\* is raised at once at the await the workflow is blocked in (an activity or
\* the review wait), whatever the activity itself goes on to do.  Inside the
\* try the catch block takes it; at the await of the catch block's own
\* report it leaves the workflow function
CancelWorkflow ==
  /\ ~Ended
  /\ ~cancelRequested
  /\ cancelRequested' = TRUE
  /\ error' = CancelledFailure
  /\ pc' = IF pc = "catch" THEN "thrown" ELSE "catch"
  /\ UNCHANGED <<input, reviewDecision, forkInfo, repoPath, claudeResult,
                 attemptCount, integrationComplete, statusLog, calls, consumed,
                 waits, sigCount, delivered, reviewPr, finalPr,
                 lastReview, leaf, applying, now, clones, disk, git, staging>>

\* workflows.ts:88-95: the catch block awaits updateIntegrationStatus in the
\* cancelled root scope, not in a non-cancellable one: the activity is
\* cancelled before it is started, the await raises CancelledFailure, and
\* the workflow function ends without the report
CatchCancelled ==
  /\ pc = "catch"
  /\ cancelRequested
  /\ error' = CancelledFailure
  /\ pc' = "thrown"
  /\ UNCHANGED <<input, reviewDecision, forkInfo, repoPath, claudeResult,
                 attemptCount, integrationComplete, statusLog, calls, consumed,
                 waits, sigCount, delivered, reviewPr, finalPr,
                 lastReview, cancelRequested, leaf, applying, now, clones, disk, git, staging>>

NextCancel ==
  \/ Next
  \/ CancelWorkflow
  \/ CatchCancelled

SpecCancel == Init /\ [][NextCancel]_vars

\* C25: an instance that has ended after a cancellation request has
\* reported failed as its last status: it is not left in a non-terminal
\* phase without a terminal status.
C25_CancelSettlesFailed ==
  (cancelRequested /\ Ended)
  => /\ Len(statusLog) > 0
     /\ statusLog[Len(statusLog)].status = "failed"

\* C26: when applyClaudeCodeFeedback returns success=false it is the last
\* leaf call, the one status reported after it is failed with a message
\* that starts with 'Failed to apply feedback', no further review wait is
\* entered and no final pull request is requested.
C26_FeedbackWithoutChangesFails ==
  \A j \in CallIdx :
    (calls[j].op = "applyClaudeCodeFeedback" /\ calls[j].result = "noChanges")
    => /\ j = Len(calls)
       /\ FinalPrCalls = {}
       /\ finalPr = None
       /\ waits = Len(consumed)
       /\ pc \in {"reportFeedbackFailed", "returned"}
       /\ pc = "reportFeedbackFailed" => Len(statusLog) = calls[j].after
       /\ pc = "returned"
            => /\ Len(statusLog) = calls[j].after + 1
               /\ statusLog[Len(statusLog)].status = "failed"
               /\ statusLog[Len(statusLog)].message[1] = "Failed to apply feedback"

\* the second feedback application produced no changes
C26_Witness ==
  /\ pc = "returned"
  /\ Len(calls) = 7
  /\ LastCall.op = "applyClaudeCodeFeedback"
  /\ LastCall.result = "noChanges"
  /\ statusLog[Len(statusLog)].status = "failed"

C28_FinalPrTarget ==
  /\ pc = "reportCompleted" => FinalPrCalls # {}
  /\ \A j \in FinalPrCalls :
       /\ calls[j].owner = input.repoOwner
       /\ calls[j].repo = input.repoName
       /\ calls[j].head = <<forkInfo.forkOwner, ":">> \o StagingBranch
       /\ calls[j].base = forkInfo.defaultBranch

\* feedback applications the workflow has started: decisions consumed in the
\* feedback branch
FeedbackStarted ==
  Cardinality({i \in ConsumedIdx :
                 /\ ~consumed[i].approved
                 /\ consumed[i].feedback \notin {"<absent>", ""}})

FeedbackCalls == Cardinality(CallsOf("applyClaudeCodeFeedback"))

\* C29 as stated: the attempt ordinal is 1 once the review loop is entered
\* and at every point equals 1 plus the number of applyClaudeCodeFeedback
\* calls issued (so that it never decreases and increases by 1 with each
\* call, the calls being only added to).
C29_OrdinalCountsCalls ==
  /\ attemptCount = 0 => FeedbackCalls = 0
  /\ attemptCount >= 1 => attemptCount = 1 + FeedbackCalls

\* C29 as amended: the attempt ordinal is 1 once the review loop is entered,
\* never decreases, increases by 1 exactly when a feedback application is
\* started, and so equals 1 plus the number of feedback decisions consumed;
\* the number of applyClaudeCodeFeedback calls issued is the ordinal minus 1
\* whenever the instance is at a review wait, and otherwise that or one less.
C29_OrdinalCountsStarted ==
  /\ [][/\ attemptCount' = attemptCount \/ attemptCount' = attemptCount + 1
        /\ attemptCount = 0 /\ attemptCount' = 1
             => pc = "reportAwaitingReview" /\ pc' = "loop"
        /\ attemptCount >= 1 /\ attemptCount' = attemptCount + 1
             => pc = "waitForReview" /\ pc' = "reportApplyingFeedback"
        /\ pc = "waitForReview" /\ pc' = "reportApplyingFeedback"
             => attemptCount' = attemptCount + 1]_vars
  /\ [](/\ attemptCount = 0 => Len(consumed) = 0 /\ FeedbackCalls = 0
        /\ attemptCount >= 1
             => /\ attemptCount = 1 + FeedbackStarted
                /\ FeedbackCalls \in {attemptCount - 1, attemptCount - 2}
                /\ pc \in {"loop", "waitForReview"}
                     => attemptCount = 1 + FeedbackCalls)

\* the second feedback application has been started and its call not yet
\* issued
C29_Witness ==
  /\ pc = "reportApplyingFeedback"
  /\ attemptCount = 3
  /\ FeedbackCalls = 1
  /\ FeedbackStarted = 2

(* ------- createStagingBranch on the workspace (activities.ts:361-431) --- *)

\* the working copy when createStagingBranch is first executed: the default
\* branch is checked out and the agent's changes are uncommitted (the
\* workflow gets here only when git status listed changes, workflows.ts:
\* 239-250); the agent may have committed other changes with a message that
\* names helicone.  branch: the staging branch exists; committed: it holds
\* the changes; pushed: it is on the remote
InitStaging ==
  /\ InitWorkflow
  /\ lastReview = None
  /\ cancelRequested = FALSE
  /\ leaf = None
  /\ applying = None
  /\ now = 0
  /\ clones = <<>>
  /\ disk = {}
  /\ \E default \in DefaultBranches, agentCommit \in BOOLEAN :
       git = [head |-> default, defaultBranch |-> default, dirty |-> TRUE,
              agentCommit |-> agentCommit, branch |-> FALSE,
              committed |-> FALSE, pushed |-> FALSE]
  /\ staging = [attempt |-> 1, step |-> "checkout", statusOutput |-> FALSE,
                hasCommit |-> FALSE, branchBefore |-> FALSE, log |-> <<>>]

\* the execution ends: its fault (none, or the command that failed for a
\* reason outside the code), its result, the message of the error caught at
\* activities.ts:427, and whether the staging branch existed when it began
\* are logged
StagingEnds(fault, result, message) ==
  staging' = [staging EXCEPT
                !.step = result,
                !.log = Append(@, [fault |-> fault, result |-> result,
                                   message |-> message,
                                   branchBefore |-> staging.branchBefore])]

\* activities.ts:366-376: git checkout main, and git checkout master when
\* that fails; uncommitted changes are carried along
StagingCheckout ==
  /\ staging # None
  /\ staging.step = "checkout"
  /\ git' = [git EXCEPT !.head = IF git.defaultBranch = "main" THEN "main"
                                                               ELSE "master"]
  /\ staging' = [staging EXCEPT !.step = "status", !.branchBefore = git.branch]
  /\ UNCHANGED <<wfVars, lastReview, cancelRequested, leaf, applying, now, clones, disk>>

\* activities.ts:379-399: git status, the look at the last commit of the
\* checked-out branch, and 'No changes to commit'
StagingStatus ==
  /\ staging # None
  /\ staging.step = "status"
  /\ LET statusOutput == git.dirty
         hasCommit == ~statusOutput /\ git.agentCommit
     IN IF ~hasCommit /\ ~statusOutput
          THEN StagingEnds("none", "failed", "No changes to commit")
          ELSE staging' = [staging EXCEPT !.step = "branch",
                                          !.statusOutput = statusOutput,
                                          !.hasCommit = hasCommit]
  /\ UNCHANGED <<wfVars, lastReview, cancelRequested, leaf, applying, now, clones, disk, git>>

\* activities.ts:401-408: git checkout -b <branchName> fails when the branch
\* exists; or the execution is lost before the command (worker stopped,
\* timeout)
StagingBranchCreate ==
  /\ staging # None
  /\ staging.step = "branch"
  /\ \E ok \in BOOLEAN :
       IF ~ok
         THEN StagingEnds("branch", "failed", "lost") /\ UNCHANGED git
         ELSE IF git.branch
           THEN StagingEnds("none", "failed", "branch exists")
                /\ UNCHANGED git
           ELSE /\ git' = [git EXCEPT !.branch = TRUE,
                                      !.head = "helicone-integration",
                                      !.committed = staging.hasCommit]
                /\ staging' = [staging EXCEPT
                                 !.step = IF ~staging.hasCommit
                                             /\ staging.statusOutput
                                            THEN "commit" ELSE "push"]
  /\ UNCHANGED <<wfVars, lastReview, cancelRequested, leaf, applying, now, clones, disk>>

\* activities.ts:408-420: git add -A and git commit, or the execution is
\* lost before the commit (worker stopped, timeout)
StagingCommit ==
  /\ staging # None
  /\ staging.step = "commit"
  /\ \E ok \in BOOLEAN :
       IF ok
         THEN /\ git' = [git EXCEPT !.dirty = FALSE, !.committed = TRUE]
              /\ staging' = [staging EXCEPT !.step = "push"]
         ELSE StagingEnds("commit", "failed", "lost") /\ UNCHANGED git
  /\ UNCHANGED <<wfVars, lastReview, cancelRequested, leaf, applying, now, clones, disk>>

\* activities.ts:422-426: git push origin <branchName>, which the network
\* may fail
StagingPush ==
  /\ staging # None
  /\ staging.step = "push"
  /\ \E ok \in BOOLEAN :
       IF ok
         THEN git' = [git EXCEPT !.pushed = TRUE] /\ StagingEnds("none", "ok", "")
         ELSE StagingEnds("push", "failed", "push failed") /\ UNCHANGED git
  /\ UNCHANGED <<wfVars, lastReview, cancelRequested, leaf, applying, now, clones, disk>>

\* workflows.ts:5-12: a failed execution is executed again, on the same
\* workspace, while attempts last
StagingRetry ==
  /\ staging # None
  /\ staging.step = "failed"
  /\ staging.attempt < MaximumAttempts
  /\ staging' = [staging EXCEPT !.step = "checkout", !.attempt = @ + 1]
  /\ UNCHANGED <<wfVars, lastReview, cancelRequested, leaf, applying, now, clones, disk, git>>

NextStaging ==
  \/ StagingCheckout
  \/ StagingStatus
  \/ StagingBranchCreate
  \/ StagingCommit
  \/ StagingPush
  \/ StagingRetry

SpecStaging == InitStaging /\ [][NextStaging]_vars

\* C30: an execution of createStagingBranch that begins on a workspace where
\* an earlier execution has created the staging branch, and that no fault
\* outside the code interrupts, completes the push.
C30_PushIsReexecutable ==
  staging # None
  => \A k \in 1..Len(staging.log) :
       (staging.log[k].branchBefore /\ staging.log[k].fault = "none")
       => staging.log[k].result = "ok"

\* C31: an execution of createStagingBranch that throws 'No changes to
\* commit' is the only one after it: the call is not executed again and the
\* error is what the orchestrator gets.
C31_NoChangesNotRetried ==
  staging # None
  => \A k \in 1..Len(staging.log) :
       staging.log[k].message = "No changes to commit"
       => staging.attempt = k

(* ---- the retry policies of the activity proxies (workflows.ts:5-28) ---- *)

\* workflows.ts:19-23  maximumAttempts: 2 of the agent activities
ClaudeMaximumAttempts == 2

\* a proxy table without the override of workflows.ts:15-24
MaximumAttemptsOfDefault(op) == MaximumAttempts

\* workflows.ts:15-28: runClaudeCode and applyClaudeCodeFeedback come from
\* the proxy with maximumAttempts: 2, the other five from defaultActivities
MaximumAttemptsOf(op) ==
  IF op \in AgentOps THEN ClaudeMaximumAttempts ELSE MaximumAttempts

\* the activity awaited at each position of the workflow that awaits one
ActivityAt(p) ==
  CASE p \in ReportPcs -> "updateIntegrationStatus"
    [] p \in {"createReviewPr", "createFinalPr"} -> "createPullRequest"
    [] OTHER -> p

AwaitPcs ==
  ReportPcs \cup {"forkRepository", "cloneRepository", "runClaudeCode",
                  "createStagingBranch", "createReviewPr",
                  "applyClaudeCodeFeedback", "createFinalPr"}

\* the await the workflow is at: its position and how many awaits of
\* activities have been resolved before it
AwaitStamp == [pc |-> pc, calls |-> Len(calls), reports |-> Len(statusLog)]

\* the activity task of the pending await is scheduled
Scheduled == leaf # None /\ leaf.stamp = AwaitStamp

\* the execution that is running is the last the policy allows
LastExecution == leaf.failed + 1 = MaximumAttemptsOf(leaf.op)

\* the workflow reaches an await of an activity: the runtime schedules the
\* activity task, no execution of it has failed yet
LeafSchedule ==
  /\ pc \in AwaitPcs
  /\ ~Scheduled
  /\ leaf' = [op |-> ActivityAt(pc), stamp |-> AwaitStamp, failed |-> 0]
  /\ UNCHANGED <<wfVars, lastReview, cancelRequested, applying, now, clones,
                 disk, git, staging>>

\* an execution of the scheduled activity fails (it throws, or times out)
\* and the policy has attempts left: the runtime executes it again
LeafExecutionFails ==
  /\ Scheduled
  /\ ~LastExecution
  /\ leaf' = [leaf EXCEPT !.failed = @ + 1]
  /\ UNCHANGED <<wfVars, lastReview, cancelRequested, applying, now, clones,
                 disk, git, staging>>

\* the await is resolved: an execution returned, or the last execution the
\* policy allows failed and the failure is raised at the await
LeafResolves ==
  /\ Scheduled
  /\ WorkflowStep
  /\ (/\ Len(calls') > Len(calls)
      /\ calls'[Len(calls')].result = "threw") => LastExecution

\* the last execution of a status report failed
LeafReportFails ==
  /\ Scheduled
  /\ LastExecution
  /\ StatusReportFails

\* the synchronous steps between awaits of activities
LocalStep ==
  /\ pc \notin AwaitPcs
  /\ WorkflowStep

\* a review decision arrives while the workflow waits for one
SignalAtWait ==
  /\ pc = "waitForReview"
  /\ SignalReviewChanges

NextRetries ==
  \/ LeafSchedule
  \/ LeafExecutionFails
  \/ LeafResolves
  \/ LeafReportFails
  \/ LocalStep
  \/ SignalAtWait

SpecRetries == Init /\ [][NextRetries]_vars

\* the failure of an activity is raised at the pending await in this step
Raised == error' # error /\ error'.activity # "<none>"

\* C32: an await of an activity is resolved after at most 3 executions of
\* forkRepository, cloneRepository, createStagingBranch, createPullRequest
\* and updateIntegrationStatus and at most 2 of runClaudeCode and
\* applyClaudeCodeFeedback; the failure is raised at the await exactly when
\* the last of these executions failed; and once a failure was raised the
\* workflow schedules nothing but the failed report of its catch block.
C32_BoundedExecutions ==
  [][/\ (pc \in AwaitPcs /\ pc' # pc)
          => /\ leaf.op = ActivityAt(pc)
             /\ leaf.failed + 1
                  <= (IF leaf.op \in {"runClaudeCode", "applyClaudeCodeFeedback"}
                        THEN 2 ELSE 3)
             /\ Raised
                  => leaf.failed + 1
                       = (IF leaf.op \in {"runClaudeCode",
                                          "applyClaudeCodeFeedback"}
                            THEN 2 ELSE 3)
     /\ (leaf' # leaf /\ leaf'.failed = 0 /\ error # None
           /\ error.activity # "<none>")
          => /\ pc = "catch"
             /\ leaf'.op = "updateIntegrationStatus"]_vars

\* runClaudeCode failed twice and its failure is in the catch block
C32_Witness ==
  /\ pc = "catch"
  /\ leaf # None
  /\ leaf.op = "runClaudeCode"
  /\ leaf.failed = 1
  /\ error = ActivityError("runClaudeCode")

(* --------------------------- progress ----------------------------------- *)

\* the runtime keeps running the workflow: every activity awaited returns or
\* fails for good, every timer fires, and the workflow task that follows is
\* executed; signals are under no obligation
Fairness == WF_vars(WorkflowStep)

\* a reviewer answers once the instance awaits review: the decision arrives
\* while the workflow is at the head of the review loop or in the wait
SignalWhileAwaitingReview ==
  /\ pc \in {"loop", "waitForReview"}
  /\ SignalReviewChanges

NextProgress ==
  \/ SignalWhileAwaitingReview
  \/ WorkflowStep

SpecFair == Init /\ [][NextProgress]_vars /\ Fairness

\* the status reported last is completed, rejected or failed
LastStatusTerminal ==
  /\ Len(statusLog) > 0
  /\ IsTerminal(statusLog[Len(statusLog)])

\* C33: when every await ends, the instance eventually has reported a
\* terminal status (completed, rejected or failed) as its last status and
\* its function has ended, and it stays so.
C33_EventuallyTerminal == <>[](Ended /\ LastStatusTerminal)

\* the instance has ended by the 7-day timeout of its second review wait
C33_Witness ==
  /\ pc = "returned"
  /\ waits = 2
  /\ Len(consumed) = 1
  /\ statusLog[Len(statusLog)] = TimeoutStatus

\* C34: the workflow function returns only with completed as the status
\* reported last, and an instance that has ended with failed or rejected as
\* the status reported last has ended by raising an error.
C34_ReturnsOnlyCompleted ==
  Ended
  => /\ pc = "returned"
          => statusLog[Len(statusLog)].status = "completed"
     /\ statusLog[Len(statusLog)].status \in {"failed", "rejected"}
          => pc = "thrown"

(* ------------- decisions sent once a review is awaited ------------------ *)

\* the status reported last is awaiting_review
AwaitingReviewReported ==
  /\ Len(statusLog) > 0
  /\ statusLog[Len(statusLog)].status = "awaiting_review"

\* a reviewer who sends decisions only after seeing the awaiting_review
\* status of the current attempt, while the instance runs
SignalAfterAwaitingReview ==
  /\ AwaitingReviewReported
  /\ SignalReviewChanges

NextAwaited ==
  \/ SignalAfterAwaitingReview
  \/ WorkflowStep

SpecAwaited == Init /\ [][NextAwaited]_vars

\* C35: of the decisions delivered after the awaiting_review status of the
\* current attempt was reported, none is discarded by the reset of the
\* decision slot: a decision the reset removes has been consumed before.
C35_NoAwaitedDecisionDiscarded ==
  [][(reviewDecision # None /\ reviewDecision' = None)
       => reviewDecision.id \in ConsumedIds]_vars

\* the status events that say completed
CompletedReports == {i \in StatusIdx : statusLog[i].status = "completed"}

\* C36: completed is reported only when the first agent run listed no file
\* and no branch or pull request was requested, or when an approved decision
\* was consumed and the final createPullRequest call returned; in the
\* second case the event carries the url that call returned, as prUrl.
C36_CompletedOnlyWhenDone ==
  \A i \in CompletedReports :
    \/ /\ statusLog[i] = NoChangesStatus
       /\ claudeResult # None
       /\ Len(claudeResult.changes.modifiedFiles) = 0
       /\ Len(claudeResult.changes.addedFiles) = 0
       /\ AgentCalls = 1
       /\ \A j \in CallIdx :
            calls[j].op \notin {"createStagingBranch", "createPullRequest"}
    \/ /\ \E k \in ConsumedIdx : consumed[k].approved
       /\ \E j \in FinalPrCalls : calls[j].result = "ok" /\ calls[j].after < i
       /\ finalPr # None
       /\ statusLog[i].urlKey = "prUrl"
       /\ statusLog[i].url = finalPr.url
       /\ \E number \in PrNumbers :
            finalPr.url = <<"https://github.com/", input.repoOwner, "/",
                            input.repoName, "/pull/", NumStr(number)>>

\* completed has been reported with the url of final pull request 2, after
\* one round of feedback
C36_Witness ==
  /\ pc = "returned"
  /\ finalPr # None
  /\ finalPr.number = 2
  /\ Len(consumed) = 2
  /\ CompletedReports = {Len(statusLog)}
  /\ statusLog[Len(statusLog)].url = finalPr.url

(* --- applyClaudeCodeFeedback on the workspace (activities.ts:239-323) --- *)

\* the working copy when applyClaudeCodeFeedback is first executed for an
\* attempt: the staging branch exists and is pushed, nothing is uncommitted.
\* local and remote count the feedback commits on the local and on the
\* remote staging branch; call numbers the workflow's calls of the activity
\* and localBefore, remoteBefore are the counts when the call was issued
InitFeedback ==
  /\ InitWorkflow
  /\ lastReview = None
  /\ cancelRequested = FALSE
  /\ leaf = None
  /\ now = 0
  /\ clones = <<>>
  /\ disk = {}
  /\ staging = None
  /\ \E head \in DefaultBranches \cup {"helicone-integration"} :
       git = [head |-> head, dirty |-> FALSE, local |-> 0, remote |-> 0]
  /\ applying = [call |-> 1, attempt |-> 1, step |-> "checkout",
                 localBefore |-> 0, remoteBefore |-> 0, log |-> <<>>]

\* the execution ends: by the value it returns or by the error it throws
\* after `fault`
FeedbackEnds(fault, result) ==
  applying' = [applying EXCEPT
                 !.step = result,
                 !.log = Append(@, [fault |-> fault, result |-> result])]

\* activities.ts:250-253  git checkout <branchName>
FeedbackCheckout ==
  /\ applying # None
  /\ applying.step = "checkout"
  /\ git' = [git EXCEPT !.head = "helicone-integration"]
  /\ applying' = [applying EXCEPT !.step = "query"]
  /\ UNCHANGED <<wfVars, lastReview, cancelRequested, leaf, now, clones, disk,
                 staging>>

\* activities.ts:257-287: the agent resumes the session with the feedback;
\* it edits files or finds nothing left to do, or the query throws
FeedbackQuery ==
  /\ applying # None
  /\ applying.step = "query"
  /\ \E ok \in BOOLEAN, edits \in BOOLEAN :
       IF ok
         THEN /\ git' = [git EXCEPT !.dirty = @ \/ edits]
              /\ applying' = [applying EXCEPT !.step = "status"]
         ELSE FeedbackEnds("query", "failed") /\ UNCHANGED git
  /\ UNCHANGED <<wfVars, lastReview, cancelRequested, leaf, now, clones, disk,
                 staging>>

\* activities.ts:289-297  git status --porcelain; success: false when empty
FeedbackStatus ==
  /\ applying # None
  /\ applying.step = "status"
  /\ IF ~git.dirty
       THEN FeedbackEnds("none", "noChanges")
       ELSE applying' = [applying EXCEPT !.step = "commit"]
  /\ UNCHANGED <<wfVars, lastReview, cancelRequested, leaf, now, clones, disk,
                 git, staging>>

\* activities.ts:299-303  git add -A and git commit, or the execution is
\* lost before the commit (worker stopped, timeout)
FeedbackCommit ==
  /\ applying # None
  /\ applying.step = "commit"
  /\ \E ok \in BOOLEAN :
       IF ok
         THEN /\ git' = [git EXCEPT !.dirty = FALSE, !.local = @ + 1]
              /\ applying' = [applying EXCEPT !.step = "push"]
         ELSE FeedbackEnds("commit", "failed") /\ UNCHANGED git
  /\ UNCHANGED <<wfVars, lastReview, cancelRequested, leaf, now, clones, disk,
                 staging>>

\* activities.ts:305-308  git push origin <branchName>, which the network
\* may fail
FeedbackPush ==
  /\ applying # None
  /\ applying.step = "push"
  /\ \E ok \in BOOLEAN :
       IF ok
         THEN git' = [git EXCEPT !.remote = git.local] /\ FeedbackEnds("none", "ok")
         ELSE FeedbackEnds("push", "failed") /\ UNCHANGED git
  /\ UNCHANGED <<wfVars, lastReview, cancelRequested, leaf, now, clones, disk,
                 staging>>

\* workflows.ts:15-24: a failed execution is executed again, on the same
\* workspace, while attempts last
FeedbackRetry ==
  /\ applying # None
  /\ applying.step = "failed"
  /\ applying.attempt < ClaudeMaximumAttempts
  /\ applying' = [applying EXCEPT !.step = "checkout", !.attempt = @ + 1]
  /\ UNCHANGED <<wfVars, lastReview, cancelRequested, leaf, now, clones, disk,
                 git, staging>>

\* workflows.ts:150-192: after a feedback that was applied the next pass of
\* the loop may apply another; attemptCount < 3 allows two calls
FeedbackNextCall ==
  /\ applying # None
  /\ applying.step = "ok"
  /\ applying.call < 2
  /\ applying' = [applying EXCEPT !.call = @ + 1, !.attempt = 1,
                                  !.step = "checkout",
                                  !.localBefore = git.local,
                                  !.remoteBefore = git.remote]
  /\ UNCHANGED <<wfVars, lastReview, cancelRequested, leaf, now, clones, disk,
                 git, staging>>

NextFeedback ==
  \/ FeedbackNextCall
  \/ FeedbackCheckout
  \/ FeedbackQuery
  \/ FeedbackStatus
  \/ FeedbackCommit
  \/ FeedbackPush
  \/ FeedbackRetry

SpecFeedback == InitFeedback /\ [][NextFeedback]_vars

\* C37: when applyClaudeCodeFeedback has returned success: false, the local
\* staging branch holds no feedback commit of this attempt and the remote
\* staging branch is as it was, whatever executions failed before.
C37_NoChangesLeavesNoCommit ==
  (applying # None /\ applying.step = "noChanges")
  => /\ git.local = applying.localBefore
     /\ git.remote = applying.remoteBefore

(* -------- the arguments of the review dispatcher (review.ts:10-37) ------ *)

\* what the reviewer may type as <approve|reject>
ReviewWords == {"approve", "Approve", "reject", "later"}

\* what the reviewer may type after it: nothing, one empty argument, two
\* empty arguments, or words
FeedbackParts == {<<>>, <<"">>, <<"", "">>, <<"add", "error", "handling">>}

\* review.ts:20  feedbackParts.join(' ')
RECURSIVE Join(_)
Join(parts) ==
  IF Len(parts) = 0 THEN ""
  ELSE IF Len(parts) = 1 THEN parts[1]
  ELSE parts[1] \o " " \o Join(Tail(parts))

\* review.ts:9-37 for the id of the instance: one run of the dispatcher
\* while the workflow waits for a review and none is pending.  lastReview
\* keeps the arguments of the run
DispatchReview ==
  /\ pc = "waitForReview"
  /\ reviewDecision = None
  /\ sigCount < MaxReviews
  /\ \E decision \in ReviewWords, feedbackParts \in FeedbackParts :
       LET parsed == ParseReview(decision, Join(feedbackParts))
       IN /\ lastReview' = [workflowId |-> WorkflowId(input.integrationId),
                            exit |-> ReviewExit(TRUE),
                            decision |-> decision,
                            feedbackParts |-> feedbackParts]
          /\ reviewDecision' =
               Handler(reviewDecision,
                       [approved |-> parsed.approved,
                        feedback |-> parsed.feedback,
                        id |-> sigCount + 1, n |-> 1, dup |-> FALSE])
  /\ sigCount' = sigCount + 1
  /\ delivered' = Append(delivered, Pushed)
  /\ UNCHANGED <<pc, input, forkInfo, repoPath, claudeResult, attemptCount,
                 integrationComplete, error, statusLog, calls, consumed,
                 waits, reviewPr, finalPr,
                 cancelRequested, leaf, applying, now, clones, disk, git, staging>>

NextDispatch ==
  \/ DispatchReview
  \/ WorkflowStep

SpecDispatch == Init /\ [][NextDispatch]_vars

\* the decision in the slot is the one the last run of the dispatcher sent
SlotHoldsLastReview ==
  /\ lastReview # None
  /\ reviewDecision # None
  /\ reviewDecision.id = sigCount

\* the decision consumed last is the one the last run of the dispatcher sent
LastReviewConsumed ==
  /\ lastReview # None
  /\ Len(consumed) > 0
  /\ consumed[Len(consumed)].id = sigCount

\* C38 as stated: approved is delivered as true exactly for 'approve' in any
\* case, and the feedback delivered is the remaining arguments joined by
\* single spaces, absent exactly when there are no remaining arguments.
C38_DeliversJoinedArguments ==
  SlotHoldsLastReview
  => /\ reviewDecision.approved = (lastReview.decision \in {"approve", "Approve"})
     /\ reviewDecision.feedback =
          (CASE lastReview.feedbackParts = <<>> -> "<absent>"
             [] lastReview.feedbackParts = <<"">> -> ""
             [] lastReview.feedbackParts = <<"", "">> -> " "
             [] OTHER -> "add error handling")

\* C38 as amended: approved is delivered as true exactly for 'approve' in
\* any case; the feedback delivered is the remaining arguments joined by
\* single spaces, absent when that text is empty (no remaining argument, or
\* one empty argument); and a word other than 'approve' without feedback
\* text leads the instance to rejected.
C38_DeliversJoinedText ==
  /\ SlotHoldsLastReview
     => /\ reviewDecision.approved
             = (lastReview.decision \in {"approve", "Approve"})
        /\ reviewDecision.feedback =
             (CASE lastReview.feedbackParts \in {<<>>, <<"">>} -> "<absent>"
                [] lastReview.feedbackParts = <<"", "">> -> " "
                [] OTHER -> "add error handling")
  /\ ( /\ LastReviewConsumed
       /\ lastReview.decision \notin {"approve", "Approve"}
       /\ lastReview.feedbackParts \in {<<>>, <<"">>} )
     => /\ pc \in {"reportRejected", "catch", "thrown"}
        /\ pc # "reportRejected" => Reported(RejectedNoFeedbackStatus)

\* `npm run review <id> later ""` has led the instance to rejected
C38_Witness ==
  /\ pc = "thrown"
  /\ LastReviewConsumed
  /\ lastReview.decision = "later"
  /\ lastReview.feedbackParts = <<"">>
  /\ Reported(RejectedNoFeedbackStatus)

(* --------- the file lists of runClaudeCode (activities.ts:215-231) ------ *)

\* lines of `git status --porcelain` the working tree may give
MaxLines == 2

\* the two status columns XY of a porcelain line: unstaged and staged
\* modification, both, added, added then modified, deleted (unstaged and
\* staged), renamed, untracked
StatusCodes ==
  {<<" ", "M">>, <<"M", " ">>, <<"M", "M">>, <<"A", " ">>, <<"A", "M">>,
   <<" ", "D">>, <<"D", " ">>, <<"R", " ">>, <<"?", "?">>}

\* the outputs of `git status --porcelain`: line i is about file i
PorcelainOutputs ==
  UNION {[1..n -> StatusCodes] : n \in 0..MaxLines}

\* activities.ts:333  change.trim().split(/\s+/)[0] of the line `XY path`
StatusToken(xy) ==
  IF xy[1] = " " THEN xy[2]
  ELSE IF xy[2] = " " THEN xy[1]
  ELSE xy[1] \o xy[2]

\* the files of the lines whose status token is in `tokens`, in line order
RECURSIVE FilesWith(_, _, _)
FilesWith(output, tokens, i) ==
  IF i > Len(output) THEN <<>>
  ELSE (IF StatusToken(output[i]) \in tokens THEN <<FilePool[i]>> ELSE <<>>)
         \o FilesWith(output, tokens, i + 1)

\* activities.ts:325-341
getGitChanges(output) ==
  [modifiedFiles |-> FilesWith(output, {"M"}, 1),
   addedFiles |-> FilesWith(output, {"A", "??"}, 1)]

\* the working tree as the agent run will leave it
InitChanges ==
  /\ InitWorkflow
  /\ lastReview = None
  /\ cancelRequested = FALSE
  /\ leaf = None
  /\ applying = None
  /\ now = 0
  /\ clones = <<>>
  /\ disk = {}
  /\ staging = None
  /\ \E output \in PorcelainOutputs : git = [porcelain |-> output]

\* workflows.ts:232-242, activities.ts:211-231: runClaudeCode returns the
\* lists getGitChanges reads from the working tree
RunClaudeCodeOnTree ==
  /\ pc = "runClaudeCode"
  /\ \E ok \in BOOLEAN, session \in Sessions :
       LET result == [changes |-> getGitChanges(git.porcelain),
                      sessionId |-> session]
       IN /\ Invoke([Call("runClaudeCode", NoArg, NoArg, NoArg, NoArg,
                          Outcome(ok)) EXCEPT !.path = repoPath])
          /\ IF ok
               THEN /\ claudeResult' = result
                    /\ pc' = IF hasChanges(result) THEN "reportPushing"
                                                   ELSE "reportNoChanges"
                    /\ UNCHANGED error
               ELSE /\ Throw(ActivityError("runClaudeCode"))
                    /\ UNCHANGED claudeResult
  /\ UNCHANGED <<auxVars, input, reviewDecision, forkInfo, repoPath, attemptCount,
                 integrationComplete, statusLog, consumed, waits, sigCount, delivered, reviewPr, finalPr>>

\* the other steps of the workflow
StepOffAgent ==
  /\ pc # "runClaudeCode"
  /\ WorkflowStep

\* a reviewer who answers each review wait once
SignalOncePerWait ==
  /\ pc = "waitForReview"
  /\ reviewDecision = None
  /\ SignalReviewChanges

NextChanges ==
  \/ RunClaudeCodeOnTree
  \/ StepOffAgent
  \/ SignalOncePerWait

SpecChanges == InitChanges /\ [][NextChanges]_vars

\* C39: when the working tree has an uncommitted change after the agent
\* run, runClaudeCode lists at least one modified or added file, whatever
\* the status code; and 'No changes needed' is reported only for a clean
\* working tree.
C39_DirtyTreeIsListed ==
  /\ (claudeResult # None /\ Len(git.porcelain) > 0)
       => Len(claudeResult.changes.modifiedFiles)
            + Len(claudeResult.changes.addedFiles) >= 1
  /\ Reported(NoChangesStatus) => Len(git.porcelain) = 0

====
